---- MODULE Spec2Model ----
(***************************************************************************)
(* Model of the order-up service: the HTTP handlers of package api         *)
(* (postOrders, chargeOrder), the storage package they call (GetOrder,     *)
(* SetOrderStatus, InsertOrder over a document collection), the charge     *)
(* service and the fulfillment service.  Handlers run concurrently, one    *)
(* goroutine per request; every access to the collection or to an external *)
(* service is a separate step.                                             *)
(***************************************************************************)
EXTENDS Integers, Sequences, FiniteSets, TLC

\* ---------------------------------------------------------------- bounds
NumProcs == 2        \* concurrent request goroutines
MaxDocs == 1         \* documents the collection may hold
MaxRequests == 2     \* requests served in one behaviour
MaxStoreDocs == 2    \* documents the collection may hold when storage is called directly

Procs == 1..NumProcs

\* ------------------------------------------------------- program constants
OrderStatusPending == 0
OrderStatusCharged == 1
OrderStatusFulfilled == 2
Statuses == {OrderStatusPending, OrderStatusCharged, OrderStatusFulfilled}

\* the status value of GetOrders that selects every order
StatusAny == 0 - 1

StatusOK == 200
StatusCreated == 201
StatusBadRequest == 400
StatusNotFound == 404
StatusConflict == 409
StatusInternalServerError == 500

\* ------------------------------------------------------------------ data
\* storage.LineItem
LineItem(d, p, q) == [Description |-> d, PriceCents |-> p, Quantity |-> q]

\* line-item lists used as request bodies and as stored orders
ItemsPaid == <<LineItem("item 1", 2, 1)>>
ItemsTwo == <<LineItem("item 1", 1, 2), LineItem("item 2", 1, 1)>>
ItemsFree == <<LineItem("item 1", 2, 1), LineItem("discount", -2, 1)>>
ItemsNegative == <<LineItem("item 1", 1, 1), LineItem("huge discount", -2, 1)>>
ItemsGift == <<LineItem("item 1", 1, 1), LineItem("gift", 0, 1)>>
ItemLists == {ItemsPaid, ItemsTwo, ItemsFree, ItemsNegative, ItemsGift}

\* the line-item lists of the bodies of POST /orders
PostItemLists == {ItemsPaid, ItemsTwo, ItemsNegative, <<>>}

\* customer emails are sequences of characters
EmailValid == <<"t", "@", "t">>
EmailInvalid == <<"t", "t">>
Emails == {EmailValid, EmailInvalid, <<>>}

\* order ids: ids given by a caller of the storage package, ids made by uuid.New
SeedIds == {"o1"}
UnknownIds == {"o2"}
UuidOf(n) == IF n = 1 THEN "u1" ELSE IF n = 2 THEN "u2" ELSE IF n = 3 THEN "u3" ELSE "u4"
UuidIds == {"u1", "u2", "u3", "u4"}
Ids == SeedIds \cup UnknownIds \cup UuidIds
NoId == ""

\* storage.Order
Order(id, email, items, status) ==
    [ID |-> id, CustomerEmail |-> email, LineItems |-> items, Status |-> status]
EmptyOrder == Order(NoId, <<>>, <<>>, OrderStatusPending)

\* Order.TotalCents
RECURSIVE SumItems(_)
SumItems(items) ==
    IF items = <<>> THEN 0
    ELSE Head(items).PriceCents * Head(items).Quantity + SumItems(Tail(items))

\* a total that stops after the first line item
TotalCentsFirstItem(o) ==
    IF o.LineItems = <<>> THEN 0
    ELSE Head(o.LineItems).PriceCents * Head(o.LineItems).Quantity

TotalCents(o) == SumItems(o.LineItems)

\* strings.Contains(s, "@")
ContainsAt(s) == \E i \in 1..Len(s) : s[i] = "@"

\* --------------------------------------------------------------- storage
\* the document the driver writes for an Order: the structs have no bson tags,
\* so every key is the lower-cased field name
Marshal(order) ==
    [id |-> order.ID,
     customeremail |-> order.CustomerEmail,
     lineitems |-> [i \in 1..Len(order.LineItems) |->
                      [description |-> order.LineItems[i].Description,
                       pricecents |-> order.LineItems[i].PriceCents,
                       quantity |-> order.LineItems[i].Quantity]],
     status |-> order.Status]

\* SingleResult.Decode / Cursor.Decode into an Order
Decode(doc) ==
    Order(doc.id, doc.customeremail,
          [i \in 1..Len(doc.lineitems) |->
              LineItem(doc.lineitems[i].description,
                       doc.lineitems[i].pricecents,
                       doc.lineitems[i].quantity)],
          doc.status)

\* collection.FindOne(filter id): position of the first matching document, 0 if none
FindOne(coll, id) ==
    IF \E i \in 1..Len(coll) : coll[i].id = id
    THEN CHOOSE i \in 1..Len(coll) :
            /\ coll[i].id = id
            /\ \A j \in 1..(i - 1) : coll[j].id # id
    ELSE 0

\* collection.InsertOne: the collection has no unique index on id
InsertOne(coll, order) == Append(coll, Marshal(order))

\* a GetOrder that forgets to map "no documents" to ErrOrderNotFound
GetOrderNoNotFound(coll, id) ==
    IF FindOne(coll, id) = 0
    THEN [err |-> "nil", order |-> EmptyOrder]
    ELSE [err |-> "nil", order |-> Decode(coll[FindOne(coll, id)])]

\* storage.GetOrder
GetOrder(coll, id) ==
    IF FindOne(coll, id) = 0
    THEN [err |-> "ErrOrderNotFound", order |-> EmptyOrder]
    ELSE [err |-> "nil", order |-> Decode(coll[FindOne(coll, id)])]

\* an update that inserts the document when none matches
SetOrderStatusUpsert(coll, id, status) ==
    IF FindOne(coll, id) = 0
    THEN [err |-> "nil",
          coll |-> Append(coll, Marshal(Order(id, <<>>, <<>>, status)))]
    ELSE [err |-> "nil",
          coll |-> [coll EXCEPT ![FindOne(coll, id)].status = status]]

\* an update that refuses to move the status backward
SetOrderStatusForwardOnly(coll, id, status) ==
    IF FindOne(coll, id) = 0
    THEN [err |-> "ErrOrderNotFound", coll |-> coll]
    ELSE IF coll[FindOne(coll, id)].status > status
    THEN [err |-> "nil", coll |-> coll]
    ELSE [err |-> "nil",
          coll |-> [coll EXCEPT ![FindOne(coll, id)].status = status]]

\* storage.SetOrderStatus
SetOrderStatus(coll, id, status) ==
    IF FindOne(coll, id) = 0
    THEN [err |-> "ErrOrderNotFound", coll |-> coll]
    ELSE [err |-> "nil",
          coll |-> [coll EXCEPT ![FindOne(coll, id)].status = status]]

\* a filter that does not know the special value -1
MatchesStatusExact(doc, status) == doc.status = status

\* storage.GetOrders: the filter built from status
MatchesStatus(doc, status) == status = StatusAny \/ doc.status = status

\* storage.GetOrders: the cursor loop over the matching documents
RECURSIVE FindAll(_, _)
FindAll(coll, status) ==
    IF coll = <<>> THEN <<>>
    ELSE IF MatchesStatus(Head(coll), status)
    THEN <<Decode(Head(coll))>> \o FindAll(Tail(coll), status)
    ELSE FindAll(Tail(coll), status)

\* storage.GetOrders
GetOrders(coll, status) == [err |-> "nil", orders |-> FindAll(coll, status)]

\* an InsertOrder that never fills in the id
FillIDNever(order, uuid) == order

\* storage.InsertOrder: an empty id is replaced by a new uuid
FillID(order, uuid) == IF order.ID = NoId THEN [order EXCEPT !.ID = uuid] ELSE order

\* an existence check that never finds the order
OrderExistsNever(coll, order) == FALSE

\* storage.InsertOrder: the existence check made for a given id
OrderExists(coll, order) == order.ID # NoId /\ FindOne(coll, order.ID) # 0

\* storage.InsertOrder run without interruption; uuid is the value uuid.New
\* would return
InsertOrder(coll, order, uuid) ==
    IF OrderExists(coll, order)
    THEN [err |-> "ErrOrderExists", id |-> NoId, coll |-> coll]
    ELSE [err |-> "nil", id |-> FillID(order, uuid).ID,
          coll |-> InsertOne(coll, FillID(order, uuid))]

\* ----------------------------------------------------------------- state
VARIABLES
    collection,      \* the Order collection: a sequence of documents
    uuids,           \* how many ids uuid.New has handed out
    pc,              \* where each request goroutine is in its handler
    req,             \* the handler's locals and its response
    chargeService,   \* per order: requests seen by the charge service
    fulfillService,  \* items the fulfillment service has shipped, requests seen
    requests         \* requests served so far

vars == <<collection, uuids, pc, req, chargeService, fulfillService, requests>>

NoReq ==
    [op |-> "none", id |-> NoId, order |-> EmptyOrder, code |-> 0,
     chargedCents |-> 0, email |-> <<>>, items |-> <<>>,
     inserted |-> FALSE, posted |-> FALSE, acked |-> FALSE, wrote |-> FALSE,
     todo |-> <<>>, sent |-> 0,
     err |-> "none", ret |-> NoId, status |-> OrderStatusPending, orders |-> <<>>,
     query |-> "", cancelled |-> FALSE]

NoCharges == [calls |-> 0, outstanding |-> 0, acked |-> 0, failed |-> 0, amounts |-> {}]

\* collections a storage client can have built before the service runs
SeedOrders == { Order(id, EmailValid, items, st) :
                  id \in SeedIds, items \in ItemLists, st \in Statuses }
SeedCollections ==
    {<<>>} \cup { <<Marshal(o)>> : o \in SeedOrders }

Init ==
    /\ collection \in SeedCollections
    /\ uuids = 0
    /\ pc = [p \in Procs |-> "idle"]
    /\ req = [p \in Procs |-> NoReq]
    /\ chargeService = [id \in Ids |-> NoCharges]
    /\ fulfillService = [shipped |-> {}, asked |-> {}, requests |-> 0, failed |-> 0,
                         shipments |-> 0]
    /\ requests = 0

\* a handler writes its response and is done
Done(p, r) ==
    /\ pc' = [pc EXCEPT ![p] = "done"]
    /\ req' = [req EXCEPT ![p] = r]

\* the ids a request can name: the seeded and unknown ones, and those handed out
RequestIds == SeedIds \cup UnknownIds \cup {UuidOf(n) : n \in 1..uuids}

\* a new request arrives at an idle goroutine
Accept(p) ==
    /\ pc[p] = "idle"
    /\ requests < MaxRequests
    /\ requests' = requests + 1

\* ------------------------------------------------------- POST /orders
\* a check that only refuses the empty email
InvalidEmailEmptyOnly(email) == email = <<>>

\* the light validation of postOrders: the email
InvalidEmail(email) == ~ContainsAt(email)

\* a check with the wrong bound, which refuses nothing
NoLineItemsBelowZero(items) == Len(items) < 0

\* the light validation of postOrders: the line items
NoLineItems(items) == Len(items) < 1

\* an order built with the wrong status
NewOrderCharged(email, items) == Order(NoId, email, items, OrderStatusCharged)

\* postOrders: the order built from the request body
NewOrder(email, items) == Order(NoId, email, items, OrderStatusPending)

\* postOrders: the status code of the response is the first one written
postOrdersCode(order) ==
    IF TotalCents(order) < 0 THEN StatusBadRequest ELSE StatusCreated

postOrders(p, bodyOk, email, items) ==
    /\ Accept(p)
    /\ LET r == [NoReq EXCEPT !.op = "postOrders",
                               !.email = IF bodyOk THEN email ELSE <<>>,
                               !.items = IF bodyOk THEN items ELSE <<>>]
           order == NewOrder(email, items)
           ins == InsertOrder(collection, order, UuidOf(uuids + 1))
       IN  IF ~bodyOk \/ InvalidEmail(email) \/ NoLineItems(items)
           THEN /\ Done(p, [r EXCEPT !.code = StatusBadRequest])
                /\ UNCHANGED <<collection, uuids>>
           ELSE /\ Len(collection) < MaxDocs
                /\ collection' = ins.coll
                /\ uuids' = uuids + 1
                /\ Done(p, [r EXCEPT !.code = postOrdersCode(order),
                                     !.inserted = TRUE,
                                     !.id = ins.id,
                                     !.order = [order EXCEPT !.ID = ins.id]])
    /\ UNCHANGED <<chargeService, fulfillService>>

\* ------------------------------------------- POST /orders/:id/charge
\* the status check of chargeOrder: TRUE when the handler answers 409
IneligibleForCharging(order) == order.Status # OrderStatusCharged

\* chargeOrder up to the status check: BindJSON, GetOrder, eligibility
chargeOrderGet(p, bodyOk, id) ==
    /\ id \in RequestIds
    /\ Accept(p)
    /\ LET r == [NoReq EXCEPT !.op = "chargeOrder", !.id = id]
           got == GetOrder(collection, id)
       IN  IF ~bodyOk
           THEN Done(p, [r EXCEPT !.code = StatusBadRequest])
           ELSE IF got.err # "nil"
           THEN Done(p, [r EXCEPT !.code = StatusNotFound])
           ELSE IF IneligibleForCharging(got.order)
           THEN Done(p, [r EXCEPT !.code = StatusConflict, !.order = got.order])
           ELSE /\ pc' = [pc EXCEPT ![p] = "charge"]
                /\ req' = [req EXCEPT ![p] = [r EXCEPT !.order = got.order]]
    /\ UNCHANGED <<collection, uuids, chargeService, fulfillService>>

\* a charge request that waits for every other call in progress on its order,
\* those that are waiting themselves included
innerChargeOrderPostWaits(p) ==
    /\ pc[p] = "charge"
    /\ \A q \in Procs \ {p} :
          ~(pc[q] \in {"charge", "charging", "charged"} /\ req[q].id = req[p].id)
    /\ LET id == req[p].id
           cs == chargeService[id]
       IN  chargeService' = [chargeService EXCEPT ![id] =
               [cs EXCEPT !.calls = cs.calls + 1,
                          !.outstanding = cs.outstanding + 1,
                          !.amounts = cs.amounts \cup {TotalCents(req[p].order)}]]
    /\ pc' = [pc EXCEPT ![p] = "charging"]
    /\ req' = [req EXCEPT ![p].posted = TRUE]
    /\ UNCHANGED <<collection, uuids, fulfillService, requests>>

\* a charge request that waits while any other charge request is in flight
innerChargeOrderPostGlobalLock(p) ==
    /\ pc[p] = "charge"
    /\ \A q \in Procs : pc[q] # "charging"
    /\ LET id == req[p].id
           cs == chargeService[id]
       IN  chargeService' = [chargeService EXCEPT ![id] =
               [cs EXCEPT !.calls = cs.calls + 1,
                          !.outstanding = cs.outstanding + 1,
                          !.amounts = cs.amounts \cup {TotalCents(req[p].order)}]]
    /\ pc' = [pc EXCEPT ![p] = "charging"]
    /\ req' = [req EXCEPT ![p].posted = TRUE]
    /\ UNCHANGED <<collection, uuids, fulfillService, requests>>

\* innerChargeOrder: the POST /charge request reaches the charge service
innerChargeOrderPost(p) ==
    /\ pc[p] = "charge"
    /\ LET id == req[p].id
           cs == chargeService[id]
       IN  chargeService' = [chargeService EXCEPT ![id] =
               [cs EXCEPT !.calls = cs.calls + 1,
                          !.outstanding = cs.outstanding + 1,
                          !.amounts = cs.amounts \cup {TotalCents(req[p].order)}]]
    /\ pc' = [pc EXCEPT ![p] = "charging"]
    /\ req' = [req EXCEPT ![p].posted = TRUE]
    /\ UNCHANGED <<collection, uuids, fulfillService, requests>>

\* innerChargeOrder: the charge service answers with a status code
innerChargeOrderResp(p, status) ==
    /\ pc[p] = "charging"
    /\ LET id == req[p].id
           cs == chargeService[id]
       IN  IF status # StatusCreated
           THEN /\ chargeService' = [chargeService EXCEPT ![id] =
                       [cs EXCEPT !.outstanding = cs.outstanding - 1,
                                  !.failed = cs.failed + 1]]
                /\ Done(p, [req[p] EXCEPT !.code = StatusInternalServerError])
           ELSE /\ chargeService' = [chargeService EXCEPT ![id] =
                       [cs EXCEPT !.outstanding = cs.outstanding - 1,
                                  !.acked = cs.acked + 1]]
                /\ pc' = [pc EXCEPT ![p] = "charged"]
                /\ req' = [req EXCEPT ![p].acked = TRUE]
    /\ UNCHANGED <<collection, uuids, fulfillService, requests>>

\* a status write that does not look at the request's context
CtxSetOrderStatusIgnored(cancelled, coll, id, status) ==
    SetOrderStatus(coll, id, status)

\* SetOrderStatus called with the request's context: the driver refuses the
\* update when the context is cancelled
CtxSetOrderStatus(cancelled, coll, id, status) ==
    IF cancelled
    THEN [err |-> "context canceled", coll |-> coll]
    ELSE SetOrderStatus(coll, id, status)

\* chargeOrder after the charge: SetOrderStatus and the response
chargeOrderSetStatus(p) ==
    /\ pc[p] = "charged"
    /\ LET set == CtxSetOrderStatus(req[p].cancelled, collection,
                                    req[p].order.ID, OrderStatusCharged)
       IN  IF set.err # "nil"
           THEN /\ Done(p, [req[p] EXCEPT !.code = StatusInternalServerError])
                /\ UNCHANGED collection
           ELSE /\ collection' = set.coll
                /\ Done(p, [req[p] EXCEPT !.code = StatusOK,
                                          !.wrote = TRUE,
                                          !.chargedCents = TotalCents(req[p].order)])
    /\ UNCHANGED <<uuids, chargeService, fulfillService, requests>>

\* ------------------------------------------------------------ fulfillment
\* the line items the fulfillment service is asked to ship
RECURSIVE PositiveItems(_)
AllItems(items) == items

\* a selection that lets free items through
NonNegativeItems(items) == SelectSeq(items, LAMBDA item : item.PriceCents >= 0)

PositiveItems(items) ==
    IF items = <<>> THEN <<>>
    ELSE IF Head(items).PriceCents > 0
    THEN <<Head(items)>> \o PositiveItems(Tail(items))
    ELSE PositiveItems(Tail(items))

\* a status check that refuses nothing
IneligibleForFulfillingNever(order) == FALSE

\* the status check of fulfillOrder: TRUE when the handler answers 409
IneligibleForFulfilling(order) == order.Status # OrderStatusCharged

\* fulfillOrder: read the order and check its status
fulfillOrderGet(p, id) ==
    /\ id \in RequestIds
    /\ Accept(p)
    /\ LET r == [NoReq EXCEPT !.op = "fulfillOrder", !.id = id]
           got == GetOrder(collection, id)
       IN  IF got.err # "nil"
           THEN Done(p, [r EXCEPT !.code = StatusNotFound])
           ELSE IF got.order.Status = OrderStatusFulfilled
           THEN Done(p, [r EXCEPT !.code = StatusOK, !.order = got.order])
           ELSE IF IneligibleForFulfilling(got.order)
           THEN Done(p, [r EXCEPT !.code = StatusConflict, !.order = got.order])
           ELSE /\ pc' = [pc EXCEPT ![p] = "fulfill"]
                /\ req' = [req EXCEPT ![p] =
                       [r EXCEPT !.order = got.order,
                                 !.todo = PositiveItems(got.order.LineItems)]]
    /\ UNCHANGED <<collection, uuids, chargeService, fulfillService>>

\* a fulfillment service that ships whatever it is asked, again and again
ShipAgain(service, id, description) ==
    [service EXCEPT !.shipped = service.shipped \cup {<<id, description>>},
                    !.shipments = service.shipments + 1]

\* the fulfillment service accepts a request: an item of an order is shipped
\* the first time it is asked for, later requests for it are answered alike
\* without a shipment
Ship(service, id, description) ==
    IF <<id, description>> \in service.shipped
    THEN service
    ELSE [service EXCEPT !.shipped = service.shipped \cup {<<id, description>>},
                         !.shipments = service.shipments + 1]

\* fulfillOrder: one PUT /fulfill for the next line item, answered ok or not
fulfillOrderItem(p, ok) ==
    /\ pc[p] = "fulfill"
    /\ req[p].todo # <<>>
    /\ LET item == Head(req[p].todo)
       IN  IF ok
           THEN /\ fulfillService' =
                       [Ship(fulfillService, req[p].id, item.Description) EXCEPT
                           !.asked = fulfillService.asked
                                         \cup {<<req[p].id, item.Description>>},
                           !.requests = fulfillService.requests + 1]
                /\ pc' = pc
                /\ req' = [req EXCEPT ![p].todo = Tail(req[p].todo),
                                      ![p].sent = req[p].sent + 1]
           ELSE /\ fulfillService' =
                       [fulfillService EXCEPT
                           !.asked = fulfillService.asked
                                         \cup {<<req[p].id, item.Description>>},
                           !.requests = fulfillService.requests + 1,
                           !.failed = fulfillService.failed + 1]
                /\ Done(p, [req[p] EXCEPT !.code = StatusInternalServerError,
                                          !.sent = req[p].sent + 1])
    /\ UNCHANGED <<collection, uuids, chargeService, requests>>

\* a status write that does not wait for the shipments
fulfillOrderSetStatusEarly(p) ==
    /\ pc[p] = "fulfill"
    /\ LET set == CtxSetOrderStatus(req[p].cancelled, collection,
                                    req[p].order.ID, OrderStatusFulfilled)
       IN  IF set.err # "nil"
           THEN /\ Done(p, [req[p] EXCEPT !.code = StatusInternalServerError])
                /\ UNCHANGED collection
           ELSE /\ collection' = set.coll
                /\ Done(p, [req[p] EXCEPT !.code = StatusOK, !.wrote = TRUE])
    /\ UNCHANGED <<uuids, chargeService, fulfillService, requests>>

\* fulfillOrder: every line item is shipped, the order becomes fulfilled
fulfillOrderSetStatus(p) ==
    /\ pc[p] = "fulfill"
    /\ req[p].todo = <<>>
    /\ LET set == CtxSetOrderStatus(req[p].cancelled, collection,
                                    req[p].order.ID, OrderStatusFulfilled)
       IN  IF set.err # "nil"
           THEN /\ Done(p, [req[p] EXCEPT !.code = StatusInternalServerError])
                /\ UNCHANGED collection
           ELSE /\ collection' = set.coll
                /\ Done(p, [req[p] EXCEPT !.code = StatusOK, !.wrote = TRUE])
    /\ UNCHANGED <<uuids, chargeService, fulfillService, requests>>

\* ---------------------------------------------------------------- server

\* ServeHTTP returns: the goroutine is free for the next request
ServeHTTPReturn(p) ==
    /\ pc[p] = "done"
    /\ pc' = [pc EXCEPT ![p] = "idle"]
    /\ req' = [req EXCEPT ![p] = NoReq]
    /\ UNCHANGED <<collection, uuids, chargeService, fulfillService, requests>>

Next ==
    \E p \in Procs :
        \/ \E bodyOk \in BOOLEAN, email \in Emails, items \in PostItemLists :
               postOrders(p, bodyOk, email, items)
        \/ \E bodyOk \in BOOLEAN, id \in Ids : chargeOrderGet(p, bodyOk, id)
        \/ innerChargeOrderPost(p)
        \/ \E status \in {StatusCreated, StatusInternalServerError} :
               innerChargeOrderResp(p, status)
        \/ chargeOrderSetStatus(p)
        \/ \E id \in Ids : fulfillOrderGet(p, id)
        \/ \E ok \in BOOLEAN : fulfillOrderItem(p, ok)
        \/ fulfillOrderSetStatus(p)
        \/ ServeHTTPReturn(p)

Spec == Init /\ [][Next]_vars

TypeOK ==
    /\ Len(collection) <= MaxDocs
    /\ requests \in 0..MaxRequests
    /\ \A p \in Procs : pc[p] \in {"idle", "charge", "charging", "charged", "fulfill", "done"}

\* ------------------------------------------- the storage package, called directly
\* storage.InsertOrder up to the existence check
StoreInsertOrder(p, order) ==
    /\ order.ID \in {NoId} \cup RequestIds
    /\ Accept(p)
    /\ LET r == [NoReq EXCEPT !.op = "InsertOrder", !.id = order.ID]
       IN  IF OrderExists(collection, order)
           THEN /\ Done(p, [r EXCEPT !.err = "ErrOrderExists", !.order = order])
                /\ uuids' = uuids
           ELSE /\ pc' = [pc EXCEPT ![p] = "insertOne"]
                /\ req' = [req EXCEPT ![p] =
                       [r EXCEPT !.order = FillID(order, UuidOf(uuids + 1))]]
                /\ uuids' = IF order.ID = NoId THEN uuids + 1 ELSE uuids
    /\ UNCHANGED <<collection, chargeService, fulfillService>>

\* storage.InsertOrder from InsertOne to the return
StoreInsertOne(p) ==
    /\ pc[p] = "insertOne"
    /\ Len(collection) < MaxStoreDocs
    /\ collection' = InsertOne(collection, req[p].order)
    /\ Done(p, [req[p] EXCEPT !.err = "nil", !.ret = req[p].order.ID])
    /\ UNCHANGED <<uuids, chargeService, fulfillService, requests>>

\* storage.GetOrder
StoreGetOrder(p, id) ==
    /\ id \in RequestIds
    /\ Accept(p)
    /\ LET got == GetOrder(collection, id)
       IN  Done(p, [NoReq EXCEPT !.op = "GetOrder", !.id = id,
                                 !.err = got.err, !.order = got.order])
    /\ UNCHANGED <<collection, uuids, chargeService, fulfillService>>

\* storage.GetOrders
StoreGetOrders(p, status) ==
    /\ Accept(p)
    /\ LET got == GetOrders(collection, status)
       IN  Done(p, [NoReq EXCEPT !.op = "GetOrders", !.status = status,
                                 !.err = got.err, !.orders = got.orders])
    /\ UNCHANGED <<collection, uuids, chargeService, fulfillService>>

\* storage.SetOrderStatus
StoreSetOrderStatus(p, id, status) ==
    /\ id \in RequestIds
    /\ Accept(p)
    /\ LET set == SetOrderStatus(collection, id, status)
       IN  /\ collection' = set.coll
           /\ Done(p, [NoReq EXCEPT !.op = "SetOrderStatus", !.id = id,
                                    !.status = status, !.err = set.err])
    /\ UNCHANGED <<uuids, chargeService, fulfillService>>

\* a lookup that creates the order it does not find
getOrderUpsert(p, id) ==
    /\ id \in RequestIds
    /\ Accept(p)
    /\ LET got == GetOrder(collection, id)
           r == [NoReq EXCEPT !.op = "getOrder", !.id = id, !.err = got.err]
       IN  IF got.err = "ErrOrderNotFound"
           THEN /\ Done(p, [r EXCEPT !.code = StatusNotFound])
                /\ collection' = IF Len(collection) < MaxStoreDocs
                                 THEN InsertOne(collection, [EmptyOrder EXCEPT !.ID = id])
                                 ELSE collection
           ELSE /\ Done(p, [r EXCEPT !.code = StatusOK, !.order = got.order])
                /\ collection' = collection
    /\ UNCHANGED <<uuids, chargeService, fulfillService>>

\* getOrder, the handler of GET /orders/:id
getOrder(p, id) ==
    /\ id \in RequestIds
    /\ Accept(p)
    /\ LET got == GetOrder(collection, id)
           r == [NoReq EXCEPT !.op = "getOrder", !.id = id, !.err = got.err]
       IN  IF got.err = "ErrOrderNotFound"
           THEN Done(p, [r EXCEPT !.code = StatusNotFound])
           ELSE IF got.err # "nil"
           THEN Done(p, [r EXCEPT !.code = StatusInternalServerError])
           ELSE Done(p, [r EXCEPT !.code = StatusOK, !.order = got.order])
    /\ UNCHANGED <<collection, uuids, chargeService, fulfillService>>

\* the values of the status query parameter of GET /orders
StatusQueries == {"pending", "charged", "fulfilled", "", "unknown"}

\* a parse that lists every order when it does not know the value
ParseStatusDefaultAny(query) ==
    IF query = "pending" THEN [ok |-> TRUE, status |-> OrderStatusPending]
    ELSE IF query = "charged" THEN [ok |-> TRUE, status |-> OrderStatusCharged]
    ELSE IF query = "fulfilled" THEN [ok |-> TRUE, status |-> OrderStatusFulfilled]
    ELSE [ok |-> TRUE, status |-> StatusAny]

\* getOrders: the switch over the status query parameter
ParseStatus(query) ==
    IF query = "pending" THEN [ok |-> TRUE, status |-> OrderStatusPending]
    ELSE IF query = "charged" THEN [ok |-> TRUE, status |-> OrderStatusCharged]
    ELSE IF query = "fulfilled" THEN [ok |-> TRUE, status |-> OrderStatusFulfilled]
    ELSE IF query = "" THEN [ok |-> TRUE, status |-> StatusAny]
    ELSE [ok |-> FALSE, status |-> OrderStatusPending]

\* the handler of GET /orders
getOrders(p, query) ==
    /\ Accept(p)
    /\ LET parsed == ParseStatus(query)
           got == GetOrders(collection, parsed.status)
           r == [NoReq EXCEPT !.op = "getOrders", !.query = query]
       IN  IF ~parsed.ok
           THEN Done(p, [r EXCEPT !.code = StatusBadRequest])
           ELSE IF got.err # "nil"
           THEN Done(p, [r EXCEPT !.code = StatusInternalServerError,
                                  !.status = parsed.status, !.err = got.err])
           ELSE Done(p, [r EXCEPT !.code = StatusOK, !.status = parsed.status,
                                  !.err = got.err, !.orders = got.orders])
    /\ UNCHANGED <<collection, uuids, chargeService, fulfillService>>

\* the orders a caller of the storage package inserts
StoreOrders ==
    { Order(id, EmailValid, ItemsTwo, st) : id \in {NoId} \cup SeedIds, st \in Statuses }
        \cup {Order(NoId, EmailValid, <<>>, OrderStatusCharged)}

\* the collection a new instance finds: empty, or left by an earlier run
StoreCollections ==
    {<<>>, <<Marshal(Order("o1", EmailValid, ItemsTwo, OrderStatusCharged))>>}

StoreInit ==
    /\ collection \in StoreCollections
    /\ uuids = 0
    /\ pc = [p \in Procs |-> "idle"]
    /\ req = [p \in Procs |-> NoReq]
    /\ chargeService = [id \in Ids |-> NoCharges]
    /\ fulfillService = [shipped |-> {}, asked |-> {}, requests |-> 0, failed |-> 0,
                         shipments |-> 0]
    /\ requests = 0

StoreNext ==
    \E p \in Procs :
        \/ \E order \in StoreOrders : StoreInsertOrder(p, order)
        \/ StoreInsertOne(p)
        \/ \E id \in Ids : StoreGetOrder(p, id)
        \/ \E status \in {StatusAny} \cup Statuses : StoreGetOrders(p, status)
        \/ \E id \in Ids, status \in Statuses : StoreSetOrderStatus(p, id, status)
        \/ \E id \in Ids : getOrder(p, id)
        \/ \E query \in StatusQueries : getOrders(p, query)
        \/ ServeHTTPReturn(p)

StoreSpec == StoreInit /\ [][StoreNext]_vars

\* ------------------------------------------- charging with two stored orders
\* collections of two orders, as a storage client can have built them
ChargeCollections ==
    { <<Marshal(Order("o1", EmailValid, ItemsPaid, st1)),
        Marshal(Order("o2", EmailValid, items, st2))>> :
          st1 \in {OrderStatusPending, OrderStatusCharged},
          st2 \in {OrderStatusPending, OrderStatusCharged},
          items \in {ItemsTwo, ItemsFree} }

ChargeInit ==
    /\ collection \in ChargeCollections
    /\ uuids = 0
    /\ pc = [p \in Procs |-> "idle"]
    /\ req = [p \in Procs |-> NoReq]
    /\ chargeService = [id \in Ids |-> NoCharges]
    /\ fulfillService = [shipped |-> {}, asked |-> {}, requests |-> 0, failed |-> 0,
                         shipments |-> 0]
    /\ requests = 0

ChargeNext ==
    \E p \in Procs :
        \/ \E bodyOk \in BOOLEAN, id \in Ids : chargeOrderGet(p, bodyOk, id)
        \/ innerChargeOrderPost(p)
        \/ \E status \in {StatusCreated, StatusInternalServerError} :
               innerChargeOrderResp(p, status)
        \/ chargeOrderSetStatus(p)
        \/ ServeHTTPReturn(p)

ChargeSpec == ChargeInit /\ [][ChargeNext]_vars

\* the goroutines are scheduled fairly and the charge service and the store
\* answer every request they are sent
ChargeFairness ==
    \A p \in Procs :
        /\ WF_vars(innerChargeOrderPost(p))
        /\ WF_vars(\E status \in {StatusCreated, StatusInternalServerError} :
                       innerChargeOrderResp(p, status))
        /\ WF_vars(chargeOrderSetStatus(p))

ChargeFairSpec == ChargeSpec /\ ChargeFairness

\* --------------------------------- charging with a crash or a failed write
\* the service dies after the charge was acknowledged, before SetOrderStatus
ProcessCrash(p) ==
    /\ pc[p] = "charged"
    /\ Done(p, [req[p] EXCEPT !.err = "crash"])
    /\ UNCHANGED <<collection, uuids, chargeService, fulfillService, requests>>

\* SetOrderStatus returns a driver error: chargeOrder answers 500
chargeOrderSetStatusFails(p) ==
    /\ pc[p] = "charged"
    /\ Done(p, [req[p] EXCEPT !.code = StatusInternalServerError,
                              !.err = "UpdateOne"])
    /\ UNCHANGED <<collection, uuids, chargeService, fulfillService, requests>>

CrashNext ==
    \/ ChargeNext
    \/ \E p \in Procs : ProcessCrash(p)
    \/ \E p \in Procs : chargeOrderSetStatusFails(p)

CrashSpec == ChargeInit /\ [][CrashNext]_vars

\* ------------------------------------------- requests the caller cancels
\* the caller of an in-flight request goes away: the request's context is
\* cancelled
Cancel(p) ==
    /\ pc[p] \in {"charge", "charging", "charged", "fulfill"}
    /\ ~req[p].cancelled
    /\ req' = [req EXCEPT ![p].cancelled = TRUE]
    /\ UNCHANGED <<collection, uuids, pc, chargeService, fulfillService, requests>>

CancelCollections ==
    { <<Marshal(Order("o1", EmailValid, ItemsTwo, st))>> : st \in Statuses }

CancelInit ==
    /\ collection \in CancelCollections
    /\ uuids = 0
    /\ pc = [p \in Procs |-> "idle"]
    /\ req = [p \in Procs |-> NoReq]
    /\ chargeService = [id \in Ids |-> NoCharges]
    /\ fulfillService = [shipped |-> {}, asked |-> {}, requests |-> 0, failed |-> 0,
                         shipments |-> 0]
    /\ requests = 0

CancelNext ==
    \E p \in Procs :
        \/ \E bodyOk \in BOOLEAN, id \in Ids : chargeOrderGet(p, bodyOk, id)
        \/ innerChargeOrderPost(p)
        \/ \E status \in {StatusCreated, StatusInternalServerError} :
               innerChargeOrderResp(p, status)
        \/ chargeOrderSetStatus(p)
        \/ \E id \in Ids : fulfillOrderGet(p, id)
        \/ \E ok \in BOOLEAN : fulfillOrderItem(p, ok)
        \/ fulfillOrderSetStatus(p)
        \/ Cancel(p)
        \/ ServeHTTPReturn(p)

CancelSpec == CancelInit /\ [][CancelNext]_vars

\* ------------------------------------------------------------ properties
\* the status stored for id (of the first matching document)
StoredStatus(id) == GetOrder(collection, id).order.Status

\* goroutine p has answered a request of handler op
Answered(p, op) == pc[p] = "done" /\ req[p].op = op

\* goroutine p's chargeOrder found the order it names
ChargeFound(p) == req[p].op = "chargeOrder" /\ req[p].order.ID # NoId

\* the charge request of goroutine p was refused by the charge service
ChargeRefused(p) == pc[p] = "done" /\ req[p].posted /\ ~req[p].acked

\* the answered chargeOrder calls that found order id pending
PendingChargers(id) ==
    {p \in Procs : /\ Answered(p, "chargeOrder")
                   /\ req[p].order.ID = id
                   /\ req[p].order.Status = OrderStatusPending}

\* C1: when two or more chargeOrder calls found the same order pending and the
\* charge service refused nothing, exactly one of them answered 200, the others
\* answered 409, and the charge service was called exactly once for the order.
C1_OneChargeAmongConcurrent ==
    \A id \in Ids :
        (Cardinality(PendingChargers(id)) >= 2 /\ chargeService[id].failed = 0)
        => /\ Cardinality({p \in PendingChargers(id) : req[p].code = StatusOK}) = 1
           /\ \A p \in PendingChargers(id) : req[p].code \in {StatusOK, StatusConflict}
           /\ chargeService[id].calls = 1

\* C2: a chargeOrder that found a pending order of total T > 0, and was not
\* refused by the charge service, posted one charge of T, was acknowledged,
\* wrote the status charged and answered 200 with chargedCents = T.
C2_ChargePendingOrder ==
    \A p \in Procs :
        ( /\ Answered(p, "chargeOrder")
          /\ ChargeFound(p)
          /\ req[p].order.Status = OrderStatusPending
          /\ TotalCents(req[p].order) > 0
          /\ ~ChargeRefused(p) )
        => /\ req[p].posted /\ req[p].acked /\ req[p].wrote
           /\ TotalCents(req[p].order) \in chargeService[req[p].id].amounts
           /\ req[p].code = StatusOK
           /\ req[p].chargedCents = TotalCents(req[p].order)

\* C3: a chargeOrder that found a pending order of total 0 wrote the status
\* charged without posting to the charge service and answered 200 with
\* chargedCents = 0.
C3_ChargeFreeOrder ==
    \A p \in Procs :
        ( /\ Answered(p, "chargeOrder")
          /\ ChargeFound(p)
          /\ req[p].order.Status = OrderStatusPending
          /\ TotalCents(req[p].order) = 0 )
        => /\ ~req[p].posted
           /\ req[p].wrote
           /\ req[p].code = StatusOK
           /\ req[p].chargedCents = 0

\* C4: a chargeOrder that found the order charged or fulfilled answers 409 at
\* once: it never posts to the charge service and never writes the status.
C4_ChargeIneligibleOrder ==
    \A p \in Procs :
        ( /\ ChargeFound(p)
          /\ req[p].order.Status \in {OrderStatusCharged, OrderStatusFulfilled} )
        => /\ pc[p] = "done"
           /\ req[p].code = StatusConflict
           /\ ~req[p].posted
           /\ ~req[p].wrote

\* C5: the step in which the charge service refuses a charge ends the handler
\* with an error response, writes nothing to the collection, and the order is
\* stored pending after it.
C5_RefusedChargeStaysPending ==
    [][ \A p \in Procs :
          (pc[p] = "charging" /\ pc'[p] = "done")
          => /\ req'[p].code = StatusInternalServerError
             /\ ~req'[p].wrote
             /\ collection' = collection
             /\ GetOrder(collection', req[p].id).order.Status = OrderStatusPending
      ]_vars

\* C6: in every step the status of every stored order stays or moves forward,
\* and never goes from pending to fulfilled.
C6_StatusOnlyForward ==
    [][ \A i \in 1..Len(collection) :
          /\ collection'[i].status >= collection[i].status
          /\ ~( /\ collection[i].status = OrderStatusPending
                /\ collection'[i].status = OrderStatusFulfilled )
      ]_vars

\* C7: at most one charge request per order is outstanding at the charge
\* service at any moment.
C7_OneOutstandingCharge ==
    \A id \in Ids : chargeService[id].outstanding <= 1

\* C8: a postOrders whose line items total less than 0 answers 400 and does
\* not call InsertOrder.
C8_NegativeTotalRejected ==
    \A p \in Procs :
        (Answered(p, "postOrders") /\ SumItems(req[p].items) < 0)
        => /\ req[p].code = StatusBadRequest
           /\ ~req[p].inserted

\* C9: a postOrders whose customerEmail has no '@' answers 400 and does not
\* call InsertOrder; no order stored by postOrders has such an email.
C9_InvalidEmailRejected ==
    /\ \A p \in Procs :
        ( /\ Answered(p, "postOrders")
          /\ \A i \in 1..Len(req[p].email) : req[p].email[i] # "@" )
        => /\ req[p].code = StatusBadRequest
           /\ ~req[p].inserted
    /\ \A i \in 1..Len(collection) :
          collection[i].id \in UuidIds
          => \E j \in 1..Len(collection[i].customeremail) :
                collection[i].customeremail[j] = "@"

C9_Witness ==
    \E p \in Procs :
        /\ Answered(p, "postOrders")
        /\ req[p].email = EmailInvalid
        /\ req[p].items = ItemsPaid
        /\ req[p].code = StatusBadRequest
        /\ Len(collection) < MaxDocs

\* C10: a postOrders with no line item answers 400 and does not call
\* InsertOrder; no order stored by postOrders has an empty line-item list.
C10_NoLineItemsRejected ==
    /\ \A p \in Procs :
        (Answered(p, "postOrders") /\ req[p].items = <<>>)
        => /\ req[p].code = StatusBadRequest
           /\ ~req[p].inserted
    /\ \A i \in 1..Len(collection) :
          collection[i].id \in UuidIds => collection[i].lineitems # <<>>

C10_Witness ==
    \E p \in Procs :
        /\ Answered(p, "postOrders")
        /\ req[p].email = EmailValid
        /\ req[p].items = <<>>
        /\ req[p].code = StatusBadRequest
        /\ Len(collection) < MaxDocs

\* C11: the step of a postOrders that answers 201 appends exactly one document
\* to the collection, with status pending and the email and line items of the
\* request, and the order of the response is that order under the id
\* InsertOrder returned.
C11_CreateInsertsPendingOrder ==
    [][ \A p \in Procs :
          ( /\ pc[p] = "idle" /\ pc'[p] = "done"
            /\ req'[p].op = "postOrders"
            /\ req'[p].code = StatusCreated )
          => LET o == req'[p].order
                 n == Len(collection)
             IN  /\ o.ID # NoId
                 /\ o.ID = req'[p].id
                 /\ o.Status = OrderStatusPending
                 /\ o.CustomerEmail = req'[p].email
                 /\ o.LineItems = req'[p].items
                 /\ Len(collection') = n + 1
                 /\ SubSeq(collection', 1, n) = collection
                 /\ collection'[n + 1].id = o.ID
                 /\ collection'[n + 1].status = OrderStatusPending
                 /\ Decode(collection'[n + 1]) = o
      ]_vars

C11_Witness ==
    \E p \in Procs :
        /\ Answered(p, "postOrders")
        /\ req[p].code = StatusCreated
        /\ req[p].items = ItemsTwo
        /\ Len(collection) = 1
        /\ collection[1].id = req[p].id

\* order is, field by field, what document doc holds
SameOrder(order, doc) ==
    /\ order.ID = doc.id
    /\ order.CustomerEmail = doc.customeremail
    /\ order.Status = doc.status
    /\ Len(order.LineItems) = Len(doc.lineitems)
    /\ \A k \in 1..Len(doc.lineitems) :
          /\ order.LineItems[k].Description = doc.lineitems[k].description
          /\ order.LineItems[k].PriceCents = doc.lineitems[k].pricecents
          /\ order.LineItems[k].Quantity = doc.lineitems[k].quantity

\* some document of the collection has this id
Stored(id) == \E i \in 1..Len(collection) : collection[i].id = id

\* goroutine p starts, in this step, a call of storage operation op
Calls(p, op) == pc[p] = "idle" /\ req'[p].op = op

\* C12: an InsertOrder given an empty id never fails; its InsertOne appends one
\* document whose id is not empty and is the id of no document stored before,
\* and that id is the one returned.
C12_EmptyIdGetsFreshId ==
    [][ \A p \in Procs :
          /\ (Calls(p, "InsertOrder") /\ req'[p].id = NoId) => pc'[p] = "insertOne"
          /\ (pc[p] = "insertOne" /\ pc'[p] = "done" /\ req[p].id = NoId)
             => /\ req'[p].err = "nil"
                /\ req'[p].ret # NoId
                /\ ~Stored(req'[p].ret)
                /\ Len(collection') = Len(collection) + 1
                /\ SubSeq(collection', 1, Len(collection)) = collection
                /\ collection'[Len(collection')].id = req'[p].ret
      ]_vars

C12_Witness ==
    \E p \in Procs :
        /\ Answered(p, "InsertOrder")
        /\ req[p].id = NoId
        /\ req[p].err = "nil"
        /\ req[p].ret \in UuidIds
        /\ Len(collection) = 2
        /\ collection[2].id = req[p].ret

\* C13: an InsertOrder given the id of a stored order returns ErrOrderExists
\* and leaves the whole collection as it was.
C13_ExistingIdRefused ==
    [][ \A p \in Procs :
          (Calls(p, "InsertOrder") /\ req'[p].id # NoId /\ Stored(req'[p].id))
          => /\ pc'[p] = "done"
             /\ req'[p].err = "ErrOrderExists"
             /\ collection' = collection
      ]_vars

C13_Witness ==
    \E p \in Procs :
        /\ Answered(p, "InsertOrder")
        /\ req[p].id = "o1"
        /\ req[p].err = "ErrOrderExists"
        /\ Len(collection) = 1

\* C14: no two documents of the collection have the same id, and no two
\* InsertOrder calls given the same id have both returned without error.
C14_OneInsertPerId ==
    /\ \A i, j \in 1..Len(collection) :
          collection[i].id = collection[j].id => i = j
    /\ \A p, q \in Procs :
          ( /\ Answered(p, "InsertOrder") /\ Answered(q, "InsertOrder")
            /\ req[p].id # NoId /\ req[p].id = req[q].id
            /\ req[p].err = "nil" /\ req[q].err = "nil" )
          => p = q

\* C15: GetOrder, and the getOrder handler over it, answer not found (404)
\* exactly when no document has the id, and otherwise return a stored order of
\* that id (200).
C15_GetFindsStoredOrder ==
    [][ \A p \in Procs :
          (Calls(p, "GetOrder") \/ Calls(p, "getOrder"))
          => /\ pc'[p] = "done"
             /\ (req'[p].err = "ErrOrderNotFound") <=> ~Stored(req'[p].id)
             /\ Stored(req'[p].id)
                => /\ req'[p].err = "nil"
                   /\ \E i \in 1..Len(collection) :
                         /\ collection[i].id = req'[p].id
                         /\ SameOrder(req'[p].order, collection[i])
             /\ req'[p].op = "getOrder"
                => req'[p].code = IF Stored(req'[p].id) THEN StatusOK
                                                         ELSE StatusNotFound
             /\ collection' = collection
      ]_vars

C15_Witness ==
    /\ \E p \in Procs :
          /\ Answered(p, "getOrder")
          /\ req[p].code = StatusOK
          /\ req[p].order.ID = "o1"
    /\ \E q \in Procs :
          /\ Answered(q, "GetOrder")
          /\ req[q].err = "ErrOrderNotFound"

\* C16: GetOrders returns, without error, one order per stored document whose
\* status is the filter, or per stored document when the filter is -1, and
\* nothing else; the result is empty when no document matches.
C16_ListFiltersByStatus ==
    [][ \A p \in Procs :
          Calls(p, "GetOrders")
          => LET f == req'[p].status
                 got == req'[p].orders
                 M == {i \in 1..Len(collection) :
                          f = 0 - 1 \/ collection[i].status = f}
             IN  /\ pc'[p] = "done"
                 /\ req'[p].err = "nil"
                 /\ Len(got) = Cardinality(M)
                 /\ \E h \in [1..Len(got) -> M] :
                       /\ \A a, b \in 1..Len(got) : h[a] = h[b] => a = b
                       /\ \A a \in 1..Len(got) : SameOrder(got[a], collection[h[a]])
                 /\ collection' = collection
      ]_vars

C16_Witness ==
    /\ Len(collection) = 2
    /\ collection[1].status # collection[2].status
    /\ \E p \in Procs :
          /\ Answered(p, "GetOrders")
          /\ req[p].status = 0 - 1
          /\ Len(req[p].orders) = 2

\* C17: a SetOrderStatus for an id no document has returns ErrOrderNotFound and
\* leaves the collection as it was.
C17_SetStatusNotFound ==
    [][ \A p \in Procs :
          (Calls(p, "SetOrderStatus") /\ ~Stored(req'[p].id))
          => /\ pc'[p] = "done"
             /\ req'[p].err = "ErrOrderNotFound"
             /\ collection' = collection
      ]_vars

C17_Witness ==
    \E p \in Procs :
        /\ Answered(p, "SetOrderStatus")
        /\ req[p].id = "o2"
        /\ req[p].err = "ErrOrderNotFound"
        /\ Len(collection) = 1

\* C18: a SetOrderStatus for a stored id succeeds whatever the current status
\* is; it changes the status of one document of that id and nothing else, and
\* a GetOrder made next returns that order with the new status.
C18_SetStatusOnlyStatus ==
    [][ \A p \in Procs :
          (Calls(p, "SetOrderStatus") /\ Stored(req'[p].id))
          => /\ pc'[p] = "done"
             /\ req'[p].err = "nil"
             /\ \E k \in 1..Len(collection) :
                   /\ collection[k].id = req'[p].id
                   /\ collection' = [collection EXCEPT ![k].status = req'[p].status]
             /\ GetOrder(collection', req'[p].id).err = "nil"
             /\ GetOrder(collection', req'[p].id).order.ID = req'[p].id
             /\ GetOrder(collection', req'[p].id).order.Status = req'[p].status
      ]_vars

C18_Witness ==
    \E p \in Procs :
        /\ Answered(p, "SetOrderStatus")
        /\ req[p].err = "nil"
        /\ req[p].id = "o1"
        /\ req[p].status = OrderStatusPending
        /\ collection = <<Marshal(Order("o1", EmailValid, ItemsTwo, OrderStatusPending))>>

\* C19: when an InsertOrder returns an id without error, a GetOrder of that id
\* made next returns the inserted order, with that id, equal in every field.
C19_InsertGetRoundTrip ==
    [][ \A p \in Procs :
          (pc[p] = "insertOne" /\ pc'[p] = "done" /\ req'[p].err = "nil")
          => /\ GetOrder(collection', req'[p].ret).err = "nil"
             /\ GetOrder(collection', req'[p].ret).order = req'[p].order
             /\ req'[p].order.ID = req'[p].ret
      ]_vars

\* the line items of an order that have a positive price
PaidItems(order) ==
    {k \in 1..Len(order.LineItems) : order.LineItems[k].PriceCents > 0}

\* C20: a fulfillOrder that finds the order Charged and gets every shipment
\* accepted has called the fulfillment service once per line item of positive
\* price and leaves the order Fulfilled, answering 200; a fulfillOrder that
\* finds the order Fulfilled answers 200 at once, calls nothing and writes
\* nothing.
C20_FulfillTwice ==
    [][ \A p \in Procs :
          /\ (pc[p] = "fulfill" /\ pc'[p] = "done" /\ req[p].todo = <<>>)
             => /\ req'[p].code = StatusOK
                /\ req'[p].sent = Cardinality(PaidItems(req[p].order))
                /\ Stored(req[p].id)
                /\ \A i \in 1..Len(collection') :
                      collection'[i].id = req[p].id
                      => collection'[i].status = OrderStatusFulfilled
          /\ ( /\ pc[p] = "idle"
               /\ req'[p].op = "fulfillOrder"
               /\ \E i \in 1..Len(collection) :
                     /\ collection[i].id = req'[p].id
                     /\ collection[i].status = OrderStatusFulfilled )
             => /\ pc'[p] = "done"
                /\ req'[p].code = StatusOK
                /\ req'[p].sent = 0
                /\ ~req'[p].wrote
                /\ fulfillService' = fulfillService
                /\ collection' = collection
      ]_vars

C20_Witness ==
    \E p, q \in Procs :
        /\ Answered(p, "fulfillOrder") /\ Answered(q, "fulfillOrder")
        /\ req[p].id = req[q].id
        /\ req[p].order.Status = OrderStatusCharged
        /\ req[p].order.LineItems = ItemsFree
        /\ req[p].code = StatusOK /\ req[p].wrote /\ req[p].sent = 1
        /\ req[q].order.Status = OrderStatusFulfilled
        /\ req[q].code = StatusOK /\ req[q].sent = 0 /\ ~req[q].wrote
        /\ fulfillService.requests = 1
        /\ StoredStatus(req[p].id) = OrderStatusFulfilled

\* the line items named d of the stored orders of this id
StoredItems(id, d) ==
    {it \in UNION {{collection[i].lineitems[k] : k \in 1..Len(collection[i].lineitems)} :
                       i \in {j \in 1..Len(collection) : collection[j].id = id}} :
        it.description = d}

\* C21: every request the fulfillment service has received names a line item
\* of positive price, never one priced zero or below; and a fulfillOrder that
\* has stored Fulfilled has had every positive-price line item of the order
\* shipped.
C21_OnlyPaidItemsShipped ==
    /\ \A a \in fulfillService.asked :
          /\ StoredItems(a[1], a[2]) # {}
          /\ \A it \in StoredItems(a[1], a[2]) : it.pricecents > 0
    /\ \A p \in Procs :
          (Answered(p, "fulfillOrder") /\ req[p].wrote)
          => \A k \in PaidItems(req[p].order) :
                <<req[p].id, req[p].order.LineItems[k].Description>>
                    \in fulfillService.shipped

C21_Witness ==
    \E p \in Procs :
        /\ Answered(p, "fulfillOrder")
        /\ req[p].wrote
        /\ req[p].order.LineItems = ItemsGift
        /\ fulfillService.asked = {<<req[p].id, "item 1">>}
        /\ fulfillService.requests = 1

\* C22: a failed fulfillment request ends fulfillOrder with the gateway error
\* (500) and writes nothing, so the stored status stays as it was; and
\* fulfillOrder stores Fulfilled only when every positive-price line item of the
\* order has been shipped.
C22_FailedShipmentKeepsCharged ==
    [][ \A p \in Procs :
          /\ ( /\ pc[p] = "fulfill"
               /\ fulfillService'.failed = fulfillService.failed + 1
               /\ req'[p] # req[p] )
             => /\ pc'[p] = "done"
                /\ req'[p].code = StatusInternalServerError
                /\ ~req'[p].wrote
                /\ collection' = collection
          /\ ( /\ pc[p] = "fulfill"
               /\ pc'[p] = "done"
               /\ collection' # collection )
             => \A k \in PaidItems(req[p].order) :
                   <<req[p].id, req[p].order.LineItems[k].Description>>
                       \in fulfillService.shipped
          /\ ( /\ pc[p] = "fulfill"
               /\ pc'[p] = "done"
               /\ req'[p].code # StatusOK )
             => collection' = collection
      ]_vars

C22_Witness ==
    \E p \in Procs :
        /\ Answered(p, "fulfillOrder")
        /\ req[p].code = StatusInternalServerError
        /\ req[p].order.LineItems = ItemsTwo
        /\ req[p].sent = 2
        /\ fulfillService.shipped = {<<req[p].id, "item 1">>}
        /\ fulfillService.failed = 1
        /\ StoredStatus(req[p].id) = OrderStatusCharged

\* C23: a fulfillOrder for an order stored Pending answers 409, sends the
\* fulfillment service nothing and writes nothing; and a fulfillOrder changes
\* the collection only when the order it read was Charged.
C23_FulfillPendingRefused ==
    [][ \A p \in Procs :
          /\ ( /\ pc[p] = "idle"
               /\ req'[p].op = "fulfillOrder"
               /\ \E i \in 1..Len(collection) :
                     /\ collection[i].id = req'[p].id
                     /\ collection[i].status = OrderStatusPending )
             => /\ pc'[p] = "done"
                /\ req'[p].code = StatusConflict
                /\ fulfillService' = fulfillService
                /\ collection' = collection
          /\ ( /\ req[p].op = "fulfillOrder"
               /\ pc[p] # pc'[p]
               /\ collection' # collection )
             => req[p].order.Status = OrderStatusCharged
          /\ ( /\ req[p].op = "fulfillOrder"
               /\ pc[p] = "fulfill"
               /\ fulfillService' # fulfillService
               /\ req'[p] # req[p] )
             => req[p].order.Status = OrderStatusCharged
      ]_vars

C23_Witness ==
    \E p \in Procs :
        /\ Answered(p, "fulfillOrder")
        /\ req[p].id = "u1"
        /\ req[p].code = StatusConflict
        /\ req[p].order.Status = OrderStatusPending
        /\ StoredStatus("u1") = OrderStatusPending
        /\ fulfillService.requests = 0

\* the signed sum of price times quantity over the line items, by index
SignedSum(items) ==
    LET S[k \in 0..Len(items)] ==
            IF k = 0 THEN 0
            ELSE S[k - 1] + items[k].PriceCents * items[k].Quantity
    IN  S[Len(items)]

\* C24: every total the handlers have computed is the signed sum of price
\* times quantity over the order's line items: the amount chargeOrder posted
\* to the charge service, the chargedCents it answered (the two calls agree),
\* and the sign postOrders answered 400 for.
C24_TotalIsSignedSum ==
    \A p \in Procs :
        /\ (req[p].op = "chargeOrder" /\ req[p].posted)
           => SignedSum(req[p].order.LineItems) \in chargeService[req[p].id].amounts
        /\ (Answered(p, "chargeOrder") /\ req[p].code = StatusOK)
           => req[p].chargedCents = SignedSum(req[p].order.LineItems)
        /\ (Answered(p, "postOrders") /\ req[p].inserted)
           => (req[p].code = StatusBadRequest <=> SignedSum(req[p].items) < 0)
        /\ \A id \in Ids : \A a \in chargeService[id].amounts :
              \E i \in 1..Len(collection) :
                  /\ collection[i].id = id
                  /\ a = SignedSum([k \in 1..Len(collection[i].lineitems) |->
                             [PriceCents |-> collection[i].lineitems[k].pricecents,
                              Quantity |-> collection[i].lineitems[k].quantity]])

C24_Witness ==
    \E p \in Procs :
        /\ Answered(p, "chargeOrder")
        /\ req[p].code = StatusOK
        /\ req[p].order.LineItems = ItemsNegative
        /\ req[p].chargedCents = 0 - 1
        /\ chargeService[req[p].id].amounts = {0 - 1}

C26_UnknownFilterRejected ==
    [][ \A p \in Procs :
          ( /\ Calls(p, "getOrders")
            /\ req'[p].query \notin {"pending", "charged", "fulfilled", ""} )
          => /\ pc'[p] = "done"
             /\ req'[p].code = StatusBadRequest
             /\ req'[p].err = "none"
             /\ req'[p].orders = <<>>
             /\ collection' = collection
      ]_vars

C26_Witness ==
    /\ Len(collection) = 1
    /\ \E p, q \in Procs :
          /\ Answered(p, "getOrders")
          /\ req[p].query = "unknown"
          /\ req[p].code = StatusBadRequest
          /\ Answered(q, "getOrders")
          /\ req[q].query = ""
          /\ req[q].code = StatusOK
          /\ Len(req[q].orders) = 1

\* C27: a chargeOrder for an id no stored order has ends at once with no
\* request to the charge service and no write, and with a well-formed body its
\* answer is 404.
C27_ChargeMissingOrder ==
    [][ \A p \in Procs :
          (Calls(p, "chargeOrder") /\ ~Stored(req'[p].id))
          => /\ pc'[p] = "done"
             /\ req'[p].code \in {StatusNotFound, StatusBadRequest}
             /\ chargeOrderGet(p, TRUE, req'[p].id) => req'[p].code = StatusNotFound
             /\ ~req'[p].posted
             /\ ~req'[p].wrote
             /\ chargeService' = chargeService
             /\ collection' = collection
      ]_vars

C27_Witness ==
    \E p \in Procs :
        /\ Answered(p, "chargeOrder")
        /\ req[p].id = "o2"
        /\ req[p].code = StatusNotFound
        /\ Len(collection) = 1
        /\ \A id \in Ids : chargeService[id].calls = 0

\* C28: every amount the charge service has been asked to charge is above
\* zero.
C28_ChargeAmountPositive ==
    \A id \in Ids : \A a \in chargeService[id].amounts : a > 0

\* C29: a chargeOrder for an order stored Pending whose line items total below
\* zero ends with an error that is not the 409 of an ineligible order, without
\* a request to the charge service and with the order still Pending.
C29_ChargeNegativeTotalInvalidState ==
    [][ \A p \in Procs :
          ( /\ chargeOrderGet(p, TRUE, req'[p].id)
            /\ \E i \in 1..Len(collection) :
                  /\ collection[i].id = req'[p].id
                  /\ collection[i].status = OrderStatusPending
                  /\ SignedSum([k \in 1..Len(collection[i].lineitems) |->
                         [PriceCents |-> collection[i].lineitems[k].pricecents,
                          Quantity |-> collection[i].lineitems[k].quantity]]) < 0 )
          => /\ pc'[p] = "done"
             /\ req'[p].code \notin {StatusOK, StatusConflict, StatusNotFound}
             /\ chargeService' = chargeService
             /\ collection' = collection
      ]_vars

\* C30: the charge service has acknowledged at most one charge for an order,
\* and exactly one for an order whose status chargeOrder has set to Charged
\* and whose total is above zero.
C30_AtMostOneAcknowledgedCharge ==
    /\ \A id \in Ids : chargeService[id].acked <= 1
    /\ \A p \in Procs :
          ( /\ Answered(p, "chargeOrder")
            /\ req[p].wrote
            /\ SignedSum(req[p].order.LineItems) > 0 )
          => chargeService[req[p].id].acked = 1

\* C31: chargeOrder writes Charged only over a status that is Pending at the
\* moment of the write: every status write of chargeOrder finds the order
\* stored Pending.
C31_ChargeWriteIsConditional ==
    [][ \A p \in Procs :
          ( /\ req[p].op = "chargeOrder"
            /\ pc[p] = "charged"
            /\ pc'[p] = "done"
            /\ req'[p].wrote )
          => \A i \in 1..Len(collection) :
                collection[i].id = req[p].id
                => collection[i].status = OrderStatusPending
      ]_vars

\* C32: a chargeOrder with a well-formed body for an order it read Pending
\* with a total above zero puts its request to the charge service, so that a
\* refused charge can be tried again; and when the charge service has
\* acknowledged it, after refusing earlier ones or not, the call has answered
\* 200, the order is stored Charged and the charge service has acknowledged
\* one charge for the order.
C32_RefusedChargeRetryable ==
    \A p \in Procs :
        ( /\ Answered(p, "chargeOrder")
          /\ req[p].order.ID # NoId
          /\ req[p].order.Status = OrderStatusPending
          /\ SignedSum(req[p].order.LineItems) > 0 )
        => /\ req[p].posted
           /\ req[p].acked
              => /\ req[p].code = StatusOK
                 /\ \A i \in 1..Len(collection) :
                       collection[i].id = req[p].id
                       => collection[i].status = OrderStatusCharged
                 /\ chargeService[req[p].id].acked = 1

\* C33: when the service crashes or the status write fails after the charge
\* service acknowledged the charge, nothing is written and the order is stored
\* Pending although the charge is captured; and a later chargeOrder with a
\* well-formed body for an order stored Pending that has a captured charge goes
\* to the charge service again.
C33_CapturedChargeLeftPending ==
    [][ \A p \in Procs :
          /\ ( /\ pc[p] = "charged"
               /\ pc'[p] = "done"
               /\ ~req'[p].wrote )
             => /\ collection' = collection
                /\ chargeService[req[p].id].acked >= 1
                /\ \A i \in 1..Len(collection) :
                      collection[i].id = req[p].id
                      => collection[i].status = OrderStatusPending
          /\ ( /\ chargeOrderGet(p, TRUE, req'[p].id)
               /\ chargeService[req'[p].id].acked >= 1
               /\ \E i \in 1..Len(collection) :
                     /\ collection[i].id = req'[p].id
                     /\ collection[i].status = OrderStatusPending )
             => pc'[p] = "charge"
      ]_vars

C36_ReadsArePure ==
    [][ \A p \in Procs :
          (Calls(p, "getOrder") \/ Calls(p, "getOrders"))
          => /\ pc'[p] = "done"
             /\ collection' = collection
             /\ chargeService' = chargeService
             /\ fulfillService' = fulfillService
             /\ uuids' = uuids
      ]_vars

C36_Witness ==
    /\ Len(collection) = 1
    /\ \E p, q \in Procs :
          /\ Answered(p, "getOrder")
          /\ req[p].id = "o2"
          /\ req[p].code = StatusNotFound
          /\ Answered(q, "getOrders")
          /\ req[q].query = "charged"
          /\ req[q].code = StatusOK
          /\ Len(req[q].orders) = 1

\* C37: every chargeOrder in progress, whatever the other callers do, comes to
\* its answer, and the answer is one of 200, 400, 404, 409 and 500.
C37_ChargeReturns ==
    /\ \A p \in Procs :
          (req[p].op = "chargeOrder" /\ pc[p] \in {"charge", "charging", "charged"})
              ~> (pc[p] = "done")
    /\ [](\A p \in Procs :
             Answered(p, "chargeOrder")
             => req[p].code \in {StatusOK, StatusBadRequest, StatusNotFound,
                                 StatusConflict, StatusInternalServerError})

C37_Witness ==
    \E p, q \in Procs :
        /\ p # q
        /\ Answered(p, "chargeOrder")
        /\ req[p].id = "o1"
        /\ req[p].code = StatusOK
        /\ Answered(q, "chargeOrder")
        /\ req[q].id = "o1"
        /\ req[q].code = StatusInternalServerError
        /\ chargeService["o1"].calls = 2

====
